---- MODULE Spec2Model ----
(***************************************************************************)
(* Resume Matcher (PycharmProjects/ResumeUpload/main.py).                  *)
(*                                                                         *)
(* A Python str is modelled as a sequence of characters, each character a  *)
(* one-element TLA+ string; the characters that have no ASCII spelling are *)
(* named: "NL" (line feed), "BUL" (U+2022), "DOT" (U+25CF), "BULB"         *)
(* (U+1F4A1).  Fixed phrases of the program's f-strings are kept as one    *)
(* element each.                                                           *)
(***************************************************************************)
EXTENDS Integers, Sequences, FiniteSets, TLC

VARIABLES
    job_feed,       \* the catalog loaded at start-up (main.py:25-28)
    today,          \* the calendar day datetime.now() falls on
    session_state,  \* st.session_state of the browser session: key -> value
    query_pro,      \* whether the session's page load carried ?pro=1
    usage_cache,    \* the st.cache_data cache of get_usage_date()
    uploaded_file,      \* the file held by st.file_uploader, or NoFile
    location_filter,    \* the value of the location selectbox
    skill_filter,       \* the value of the skill multiselect
    run,            \* what the latest run of the script produced
    call            \* the latest call of a function on drawn arguments

vars == <<job_feed, today, session_state, query_pro, usage_cache,
          uploaded_file, location_filter, skill_filter, run, call>>

\* Python's None
None == <<"None">>

\* uploaded_file when the uploader holds no file (None)
NoFile == [name |-> <<>>, parts |-> <<>>]

----------------------------------------------------------------------------
(* Bounds of the model. *)

MaxTextLen == 4     \* longest text handed to extract_skills on its own
MaxJobs == 2        \* longest catalog
MaxResumeLen == 1   \* longest resume skill list handed to the matcher
MaxTopN == 2        \* largest explicit top_n (besides the default)
MaxCount == 18      \* largest skill / flagged-bullet count scored on its own
MaxDay == 2         \* calendar days the clock runs through
MaxParts == 1       \* pages / paragraphs of an uploaded document

----------------------------------------------------------------------------
(* Python str and list primitives. *)

Min(a, b) == IF a < b THEN a ELSE b
Max(a, b) == IF a > b THEN a ELSE b

\* str.lower() on one character.
ToLower ==
    [A |-> "a", B |-> "b", C |-> "c", D |-> "d", E |-> "e", F |-> "f",
     G |-> "g", H |-> "h", I |-> "i", J |-> "j", K |-> "k", L |-> "l",
     M |-> "m", N |-> "n", O |-> "o", P |-> "p", Q |-> "q", R |-> "r",
     S |-> "s", T |-> "t", U |-> "u", V |-> "v", W |-> "w", X |-> "x",
     Y |-> "y", Z |-> "z"]

LowerChar(c) == IF c \in DOMAIN ToLower THEN ToLower[c] ELSE c

\* str.lower()
Lower(s) == [i \in 1..Len(s) |-> LowerChar(s[i])]

\* `sub in s` on strings
Contains(s, sub) ==
    \E i \in 0..(Len(s) - Len(sub)) : SubSeq(s, i + 1, i + Len(sub)) = sub

\* s.endswith(suffix)
EndsWith(s, suffix) ==
    /\ Len(s) >= Len(suffix)
    /\ SubSeq(s, Len(s) - Len(suffix) + 1, Len(s)) = suffix

\* s.startswith(prefix)
StartsWith(s, prefix) ==
    /\ Len(s) >= Len(prefix)
    /\ SubSeq(s, 1, Len(prefix)) = prefix

\* seq[:n] for n >= 0
Take(seq, n) == SubSeq(seq, 1, Min(n, Len(seq)))

\* sep.join(parts)
RECURSIVE Join(_, _)
Join(sep, parts) ==
    IF parts = <<>> THEN <<>>
    ELSE IF Len(parts) = 1 THEN parts[1]
    ELSE parts[1] \o sep \o Join(sep, Tail(parts))

\* the elements of a list, as a set
Range(seq) == {seq[i] : i \in 1..Len(seq)}

\* every sequence over S of length at most n
SeqsUpTo(S, n) == UNION {[1..k -> S] : k \in 0..n}

\* list(a_set): Python fixes no order for the elements of a set (the order
\* follows the string hashes, which change from process to process), so every
\* arrangement of the elements is a possible outcome.
Lists(S) ==
    {q \in [1..Cardinality(S) -> S] : \A i, j \in 1..Cardinality(S) : q[i] = q[j] => i = j}

----------------------------------------------------------------------------
(* Module-level data, main.py:30-36. *)

SKILLS ==
    << <<"P","y","t","h","o","n">>, <<"S","Q","L">>,
       <<"T","a","b","l","e","a","u">>, <<"P","o","w","e","r"," ","B","I">>,
       <<"E","x","c","e","l">>, <<"R">>,
       <<"M","a","c","h","i","n","e"," ","L","e","a","r","n","i","n","g">>,
       <<"S","p","a","r","k">>, <<"R","e","d","s","h","i","f","t">>,
       <<"A","z","u","r","e">>, <<"B","i","g","Q","u","e","r","y">>,
       <<"S","n","o","w","f","l","a","k","e">>, <<"D","3",".","j","s">>,
       <<"J","a","v","a","S","c","r","i","p","t">> >>

----------------------------------------------------------------------------
(* extract_skills, main.py:122-123. *)

\* the comparison made on the text as written: `s in text`
extract_skills_CaseSensitive(text) ==
    LET Keep(s) == Contains(text, s) IN SelectSeq(SKILLS, Keep)

\* [s for s in SKILLS if s.lower() in text.lower()]
extract_skills(text) ==
    LET lower == Lower(text)
        Keep(s) == Contains(lower, Lower(s))
    IN  SelectSeq(SKILLS, Keep)

----------------------------------------------------------------------------
(* suggest_resume_improvements, main.py:125-129. *)

\* the f-string of main.py:127 around one skill name
SuggestionFor(skill) ==
    <<"BULB", " ", "_Consider adding a bullet point or project showing experience with **">>
        \o skill \o <<"**._">>

suggest_resume_improvements(missing_skills) ==
    [i \in 1..Len(missing_skills) |-> SuggestionFor(missing_skills[i])]

----------------------------------------------------------------------------
(* get_top_matches_with_feedback, main.py:131-146. *)

DefaultTopN == 5    \* top_n=5, main.py:131
FreeSuggestions == 2    \* all_suggestions[:2], main.py:144

\* set(s.lower() for s in names), main.py:133 and 135
LowerSet(names) == {Lower(names[i]) : i \in 1..Len(names)}

\* resume_set & job_set, main.py:136
MatchedOf(resume_set, job_set) == resume_set \cap job_set

\* the subtraction left out: every required skill is reported missing
MissingOf_All(resume_set, job_set) == job_set

\* job_set - resume_set, main.py:137
MissingOf(resume_set, job_set) == job_set \ resume_set

\* the free-tier cut applied to everybody
ShownSuggestions_AlwaysCut(all_suggestions, pro_user) ==
    Take(all_suggestions, FreeSuggestions)

\* all_suggestions if pro_user else all_suggestions[:2], main.py:144
ShownSuggestions(all_suggestions, pro_user) ==
    IF pro_user THEN all_suggestions ELSE Take(all_suggestions, FreeSuggestions)

\* The dict appended for one job, main.py:135-145: one outcome for each order
\* list() may give the two sets.
ResultEntries(resume_set, job, pro_user) ==
    LET job_set == LowerSet(job.skills)
        matched == MatchedOf(resume_set, job_set)
    IN  { [title |-> job.title, location |-> job.location, skills |-> job.skills,
           match_score |-> Cardinality(matched),
           matched_skills |-> ml,
           missing_skills |-> missing,
           suggestions |->
               ShownSuggestions(suggest_resume_improvements(missing), pro_user)]
          : ml \in Lists(matched),
            missing \in Lists(MissingOf(resume_set, job_set)) }

\* The list `results` after the loop of main.py:134-145.
RECURSIVE ResultLists(_, _, _)
ResultLists(resume_set, feed, pro_user) ==
    IF feed = <<>> THEN {<<>>}
    ELSE { <<e>> \o rest :
             e \in ResultEntries(resume_set, Head(feed), pro_user),
             rest \in ResultLists(resume_set, Tail(feed), pro_user) }

Reverse(seq) == [i \in 1..Len(seq) |-> seq[Len(seq) + 1 - i]]

\* One step of a stable ascending sort: e goes behind every element whose
\* key is not greater than its own.
RECURSIVE InsertByScore(_, _)
InsertByScore(sorted, e) ==
    IF sorted = <<>> THEN <<e>>
    ELSE IF Head(sorted).match_score <= e.match_score
         THEN <<Head(sorted)>> \o InsertByScore(Tail(sorted), e)
         ELSE <<e>> \o sorted

RECURSIVE SortAscending(_)
SortAscending(seq) ==
    IF seq = <<>> THEN <<>>
    ELSE InsertByScore(SortAscending(SubSeq(seq, 1, Len(seq) - 1)), seq[Len(seq)])

\* an ascending sort turned round: sorted(results, key=...)[::-1]
SortedByScoreDesc_Turned(results) == Reverse(SortAscending(results))

\* sorted(results, key=lambda x: x["match_score"], reverse=True), main.py:146.
\* list.sort with reverse=True reverses the list, sorts it ascending (the sort
\* is stable) and reverses the outcome.
SortedByScoreDesc(results) == Reverse(SortAscending(Reverse(results)))

\* the slice taken one too long
TopSlice_OneMore(results, top_n) == Take(results, top_n + 1)

\* [:top_n], main.py:146, for top_n >= 0
TopSlice(results, top_n) == Take(results, top_n)

\* Every list the call can return.
get_top_matches_with_feedback(resume_skills, feed, pro_user, top_n) ==
    LET resume_set == LowerSet(resume_skills)
    IN  { TopSlice(SortedByScoreDesc(results), top_n) :
            results \in ResultLists(resume_set, feed, pro_user) }

----------------------------------------------------------------------------
(* More str primitives, used on the extracted text. *)

Whitespace == {" ", "NL", "TAB"}
Digits == {"0", "1", "2", "3", "4", "5", "6", "7", "8", "9"}

\* \w of the re module: letters, digits and the underscore
WordChars == DOMAIN ToLower \cup {ToLower[u] : u \in DOMAIN ToLower} \cup Digits \cup {"_"}
IsWordChar(c) == c \in WordChars

\* str.splitlines(): the pieces between line feeds, a last empty piece dropped
RECURSIVE Pieces(_)
Pieces(text) ==
    IF \A i \in 1..Len(text) : text[i] # "NL" THEN <<text>>
    ELSE LET k == CHOOSE i \in 1..Len(text) :
                      /\ text[i] = "NL"
                      /\ \A j \in 1..(i - 1) : text[j] # "NL"
         IN  <<SubSeq(text, 1, k - 1)>> \o Pieces(SubSeq(text, k + 1, Len(text)))

SplitLines(text) ==
    LET p == Pieces(text)
    IN  IF p[Len(p)] = <<>> THEN SubSeq(p, 1, Len(p) - 1) ELSE p

\* str.strip()
RECURSIVE LStrip(_)
LStrip(s) == IF s # <<>> /\ Head(s) \in Whitespace THEN LStrip(Tail(s)) ELSE s

Strip(s) == Reverse(LStrip(Reverse(LStrip(s))))

\* len(s.split()): the runs of characters that are not whitespace
WordCount(s) ==
    Cardinality({i \in 1..Len(s) :
        /\ s[i] \notin Whitespace
        /\ (i = 1 \/ s[i - 1] \in Whitespace)})

\* re.search(r"\d", s)
HasDigit(s) == \E i \in 1..Len(s) : s[i] \in Digits

\* \b between s[k] and s[k+1] (k = 0: before the first character)
WordBoundary(s, k) ==
    (k >= 1 /\ IsWordChar(s[k])) # (k < Len(s) /\ IsWordChar(s[k + 1]))

\* phrase found at offset k of s, a \b on either side of it
PhraseAt(s, phrase, k) ==
    /\ k + Len(phrase) <= Len(s)
    /\ SubSeq(s, k + 1, k + Len(phrase)) = phrase
    /\ WordBoundary(s, k)
    /\ WordBoundary(s, k + Len(phrase))

\* re.search(rf"\b{phrase}\b", s)
HasPhrase(s, phrase) == \E k \in 0..Len(s) : PhraseAt(s, phrase, k)

\* s.replace(old, "")
RECURSIVE Remove(_, _)
Remove(s, old) ==
    IF Len(s) < Len(old) THEN s
    ELSE IF StartsWith(s, old) THEN Remove(SubSeq(s, Len(old) + 1, Len(s)), old)
    ELSE <<Head(s)>> \o Remove(Tail(s), old)

----------------------------------------------------------------------------
(* extract_text, main.py:113-120.  An uploaded file is its name and what   *)
(* the document libraries read from it: the text of each page (fitz) or of *)
(* each paragraph (python-docx).                                           *)

ExtPdf == <<".", "p", "d", "f">>
ExtDocx == <<".", "d", "o", "c", "x">>

\* the extensions compared without regard to case
extract_text_AnyCase(file) ==
    IF EndsWith(Lower(file.name), ExtPdf) THEN Join(<<>>, file.parts)
    ELSE IF EndsWith(Lower(file.name), ExtDocx) THEN Join(<<"NL">>, file.parts)
    ELSE <<>>

extract_text(file) ==
    IF EndsWith(file.name, ExtPdf) THEN Join(<<>>, file.parts)
    ELSE IF EndsWith(file.name, ExtDocx) THEN Join(<<"NL">>, file.parts)
    ELSE <<>>

----------------------------------------------------------------------------
(* extract_bullet_points, main.py:288-291. *)

MaxBullets == 15    \* bullets[:15], main.py:291
BulletMarkers == {"-", "BUL", "DOT", "*"}

\* re.match(r"^[-•●*]\s+", s) or s.startswith("•")
IsBulletLine(s) ==
    \/ Len(s) >= 2 /\ s[1] \in BulletMarkers /\ s[2] \in Whitespace
    \/ StartsWith(s, <<"BUL">>)

extract_bullet_points(text) ==
    LET lines == SplitLines(text)
        stripped == [i \in 1..Len(lines) |-> Strip(lines[i])]
    IN  Take(SelectSeq(stripped, IsBulletLine), MaxBullets)

----------------------------------------------------------------------------
(* analyze_bullets, main.py:97-111, with the lists of main.py:34-36. *)

WEAK_VERBS ==
    << <<"h","e","l","p","e","d">>, <<"w","o","r","k","e","d"," ","o","n">>,
       <<"a","s","s","i","s","t","e","d">>,
       <<"i","n","v","o","l","v","e","d"," ","i","n">>,
       <<"s","u","p","p","o","r","t","e","d">>,
       <<"p","a","r","t","i","c","i","p","a","t","e","d">> >>

\* any(w in b.lower() for w in WEAK_VERBS)
HasWeakVerb(b) ==
    LET lower == Lower(b)
    IN  \E i \in 1..Len(WEAK_VERBS) : Contains(lower, WEAK_VERBS[i])

\* len(b.split()) < 5
MinWords == 5
IsShort(b) == WordCount(b) < MinWords

\* PASSIVE_PATTERNS[0], \bwas\b.*\bby\b, searched in a line
PassiveWasBy(s) ==
    \E i \in 0..Len(s) :
        /\ PhraseAt(s, <<"w","a","s">>, i)
        /\ \E j \in (i + 3)..Len(s) : PhraseAt(s, <<"b","y">>, j)

\* PASSIVE_PATTERNS[1..3]
PassivePhrases ==
    { <<"w","a","s"," ","r","e","s","p","o","n","s","i","b","l","e"," ","f","o","r">>,
      <<"w","a","s"," ","t","a","s","k","e","d"," ","w","i","t","h">>,
      <<"w","e","r","e"," ","i","n","v","o","l","v","e","d"," ","i","n">> }

\* any(re.search(pat, b.lower()) for pat in PASSIVE_PATTERNS)
IsPassive(b) ==
    LET lower == Lower(b)
    IN  \/ PassiveWasBy(lower)
        \/ \E ph \in PassivePhrases : HasPhrase(lower, ph)

TipVerb == <<"WARN Try using a stronger verb.", "NL">>
TipMetric == <<"RULER Add metrics or results (e.g. 'increased efficiency by 20%').", "NL">>
TipDetail == <<"PENCIL Expand with more detail.", "NL">>
TipActive == <<"REPEAT Consider rephrasing into active voice.", "NL">>

\* the string s built for one bullet, main.py:100-108
BulletTips(b) ==
    (IF HasWeakVerb(b) THEN TipVerb ELSE <<>>)
        \o (IF ~HasDigit(b) THEN TipMetric ELSE <<>>)
        \o (IF IsShort(b) THEN TipDetail ELSE <<>>)
        \o (IF IsPassive(b) THEN TipActive ELSE <<>>)

analyze_bullets(bullets) ==
    LET tips == [i \in 1..Len(bullets) |-> <<bullets[i], BulletTips(bullets[i])>>]
        Flagged(pair) == pair[2] # <<>>
        kept == SelectSeq(tips, Flagged)
    IN  [i \in 1..Len(kept) |-> <<kept[i][1], Strip(kept[i][2])>>]

----------------------------------------------------------------------------
(* The resume strength score, main.py:313-315. *)

SkillWeight == 3        \* skill_score * 3, main.py:315
FeedbackWeight == 5     \* feedback_score * 5, main.py:315
FeedbackBase == 15      \* 15 - len(feedback), main.py:314
ScoreCap == 100         \* min(100, ...), main.py:315

\* the cap left out
StrengthScore_NoCap(skill_score, n_feedback) ==
    skill_score * SkillWeight + Max(0, FeedbackBase - n_feedback) * FeedbackWeight

\* skill_score = len(resume_skills), n_feedback = len(feedback)
StrengthScore(skill_score, n_feedback) ==
    LET feedback_score == Max(0, FeedbackBase - n_feedback)
    IN  Min(ScoreCap, skill_score * SkillWeight + feedback_score * FeedbackWeight)

----------------------------------------------------------------------------
(* rewrite_bullet and generate_rewritten_bullets, main.py:79-95, with      *)
(* REWRITE_MAP, main.py:38-45.                                             *)

REWRITE_MAP ==
    << <<<<"h","e","l","p","e","d">>, <<"c","o","n","t","r","i","b","u","t","e","d"," ","t","o">>>>,
       <<<<"w","o","r","k","e","d"," ","o","n">>, <<"e","x","e","c","u","t","e","d">>>>,
       <<<<"a","s","s","i","s","t","e","d">>, <<"s","u","p","p","o","r","t","e","d"," ","d","e","l","i","v","e","r","y"," ","o","f">>>>,
       <<<<"i","n","v","o","l","v","e","d"," ","i","n">>, <<"p","a","r","t","i","c","i","p","a","t","e","d"," ","i","n"," ","e","x","e","c","u","t","i","n","g">>>>,
       <<<<"s","u","p","p","o","r","t","e","d">>, <<"e","n","a","b","l","e","d">>>>,
       <<<<"p","a","r","t","i","c","i","p","a","t","e","d">>, <<"c","o","l","l","a","b","o","r","a","t","e","d"," ","o","n">>>> >>

\* re.sub(rf"\b{weak}\b", strong, s, flags=re.IGNORECASE), from offset k on;
\* lower is s.lower(), in which the match is looked for
RECURSIVE SubFrom(_, _, _, _, _)
SubFrom(s, lower, k, weak, strong) ==
    IF k >= Len(s) THEN <<>>
    ELSE IF PhraseAt(lower, weak, k)
         THEN strong \o SubFrom(s, lower, k + Len(weak), weak, strong)
         ELSE <<s[k + 1]>> \o SubFrom(s, lower, k + 1, weak, strong)

\* the loop of main.py:81-82 over the first n entries of REWRITE_MAP
RECURSIVE RewriteVerbs(_, _)
RewriteVerbs(s, n) ==
    IF n = 0 THEN s
    ELSE LET before == RewriteVerbs(s, n - 1)
         IN  SubFrom(before, Lower(before), 0, REWRITE_MAP[n][1], REWRITE_MAP[n][2])

rewrite_bullet(bullet) ==
    LET r1 == RewriteVerbs(bullet, Len(REWRITE_MAP))
        r2 == IF ~HasDigit(r1) THEN r1 \o <<" ", "(add", " ", "metric)">> ELSE r1
        r3 == IF WordCount(r2) < MinWords
              THEN r2 \o <<" ", "(expand", " ", "with", " ", "detail)">> ELSE r2
    IN  Strip(r3)

generate_rewritten_bullets(bullets) ==
    LET Weak(b) == HasWeakVerb(b) \/ ~HasDigit(b) \/ IsShort(b)
        kept == SelectSeq(bullets, Weak)
    IN  [i \in 1..Len(kept) |-> <<kept[i], rewrite_bullet(kept[i])>>]

----------------------------------------------------------------------------
(* generate_resume_pdf, main.py:159-286: the lines written to the report.  *)
(* The pie chart page shows the same skills as the "Extracted Skills"      *)
(* list and is left to the drawing library.                                *)

ReportSuggestions == 5  \* suggestions[:5], main.py:242
TextLineWidth == 100    \* line[:100], main.py:258
FeedbackLineWidth == 90 \* original[:90] and line[:90], main.py:272-276

\* the slice left out: every suggestion handed over is written
ReportedSuggestions_All(suggestions) ==
    [i \in 1..Len(suggestions) |-> Remove(suggestions[i], <<"BULB", " ">>)]

\* main.py:242-244
ReportedSuggestions(suggestions) ==
    LET cut == Take(suggestions, ReportSuggestions)
    IN  [i \in 1..Len(cut) |-> Remove(cut[i], <<"BULB", " ">>)]

generate_resume_pdf(resume_skills, matches, suggestions, full_text, feedback) ==
    [skills |-> resume_skills,
     jobs |-> [i \in 1..Len(matches) |->
                 [title |-> matches[i].title,
                  match_score |-> matches[i].match_score,
                  matched |-> Join(<<",", " ">>, matches[i].matched_skills),
                  missing |-> Join(<<",", " ">>, matches[i].missing_skills)]],
     suggestions |-> ReportedSuggestions(suggestions),
     text |-> LET lines == SplitLines(full_text)
              IN  [i \in 1..Len(lines) |-> Take(lines[i], TextLineWidth)],
     feedback |-> [i \in 1..Len(feedback) |->
                     <<Take(feedback[i][1], FeedbackLineWidth),
                       LET tips == SplitLines(feedback[i][2])
                       IN  [j \in 1..Len(tips) |-> Take(tips[j], FeedbackLineWidth)]>>]]

----------------------------------------------------------------------------
(* The script body run for an uploaded file, main.py:308-499, past the     *)
(* daily gate.  pro is st.session_state.get("pro_user", False).            *)

AnyLocation == <<"A","n","y">>
LocationOptions == {AnyLocation, <<"R","e","m","o","t","e">>, <<"O","n","-","s","i","t","e">>}     \* main.py:410

\* [s for job in matches for s in job['suggestions']], main.py:469
RECURSIVE AllSuggestions(_)
AllSuggestions(matches) ==
    IF matches = <<>> THEN <<>>
    ELSE Head(matches).suggestions \o AllSuggestions(Tail(matches))

\* the filter loop of main.py:415-423
PassesFilters(job, location, wanted) ==
    /\ ~(location # AnyLocation /\ ~Contains(Lower(job.location), Lower(location)))
    /\ ~(wanted # <<>> /\
         ~\A i \in 1..Len(wanted) :
             Lower(wanted[i]) \in {Lower(job.skills[j]) : j \in 1..Len(job.skills)})

\* What one run of the body shows and exports; one outcome for each list
\* get_top_matches_with_feedback can return.  report holds the PDF behind the
\* download button of main.py:468-475, and nothing when the button is not shown.
ScriptBody(file, feed, pro, location, wanted, upgrade) ==
    LET text == extract_text(file)
        bullets == extract_bullet_points(text)
        feedback == analyze_bullets(bullets)
        resume_skills == extract_skills(text)
        total_score == StrengthScore(Len(resume_skills), Len(feedback))
        rewrites == IF pro THEN generate_rewritten_bullets(bullets) ELSE None
        Pass(job) == PassesFilters(job, location, wanted)
    IN  { [kind |-> "scan",
           file |-> file.name,
           pro |-> pro,
           text |-> text,
           bullets |-> bullets,
           feedback |-> feedback,
           resume_skills |-> resume_skills,
           total_score |-> total_score,
           rewrites |-> rewrites,
           top |-> top,
           matches |-> SelectSeq(top, Pass),
           report |-> IF pro
                      THEN <<generate_resume_pdf(resume_skills, SelectSeq(top, Pass),
                                 AllSuggestions(SelectSeq(top, Pass)), text, feedback)>>
                      ELSE <<>>,
           checkout |-> ~pro /\ upgrade]
          : top \in get_top_matches_with_feedback(resume_skills, feed, pro, DefaultTopN) }

----------------------------------------------------------------------------
(* The inputs the model draws. *)

\* texts read from a page or a paragraph of an uploaded document
SampleParts ==
    { <<"-"," ","H","e","l","p","e","d"," ","R">>,
      <<"BUL"," ","l","e","d"," ","5"," ","s","q","l"," ","j","o","b","s">>,
      <<"-"," ","i","t"," ","w","a","s"," ","5"," ","d","o","n","e"," ","b","y"," ","m","e">> }

FileNames == { <<"c","v",".","p","d","f">>, <<"c","v",".","d","o","c","x">>, <<"c","v",".","P","D","F">>, <<"c","v",".","t","x","t">> }

Files == [name : FileNames, parts : SeqsUpTo(SampleParts, MaxParts)]

\* the documents the application is run with
SampleDocs ==
    { <<>>,
      <<<<"-"," ","H","e","l","p","e","d"," ","R">>>>,
      <<<<"BUL"," ","l","e","d"," ","5"," ","s","q","l"," ","j","o","b","s">>, <<"-"," ","i","t"," ","w","a","s"," ","5"," ","d","o","n","e"," ","b","y"," ","m","e">>>> }

\* st.file_uploader(..., type=["pdf", "docx"]), main.py:298: the uploader
\* takes a file by its extension, compared without regard to case
Accepted(file) ==
    EndsWith(Lower(file.name), ExtPdf) \/ EndsWith(Lower(file.name), ExtDocx)

\* the postings a catalog is drawn from (static_job_feed.json is data)
JobKinds ==
    { [skills |-> <<<<"p","y","t","h","o","n">>, <<"s","q","l">>>>, location |-> <<"R","e","m","o","t","e">>],
      [skills |-> <<<<"P","y","t","h","o","n">>, <<"S","Q","L">>, <<"R">>>>, location |-> <<"A","u","s","t","i","n",","," ","T","X">>],
      [skills |-> <<<<"S","Q","L">>, <<"s","q","l">>>>, location |-> <<"R","e","m","o","t","e"," ","(","U","S",")">>] }

Titled(kinds) ==
    [i \in 1..Len(kinds) |->
        [title |-> i, location |-> kinds[i].location, skills |-> kinds[i].skills]]

Catalogs == {Titled(k) : k \in SeqsUpTo(JobKinds, MaxJobs)}

\* the catalog the application is run with
SampleFeed ==
    Titled(<< [skills |-> <<<<"S","Q","L">>, <<"R">>>>, location |-> <<"A","u","s","t","i","n",","," ","T","X">>],
              [skills |-> <<<<"p","y","t","h","o","n">>>>, location |-> <<"R","e","m","o","t","e">>] >>)

\* the catalogs the script body is run with on its own
SampleFeeds ==
    { SampleFeed,
      Titled(<< [skills |-> <<<<"P","y","t","h","o","n">>, <<"E","x","c","e","l">>>>, location |-> <<"R","e","m","o","t","e">>],
                [skills |-> <<<<"T","a","b","l","e","a","u">>, <<"S","Q","L">>>>, location |-> <<"A","u","s","t","i","n",","," ","T","X">>],
                [skills |-> <<<<"S","p","a","r","k">>, <<"A","z","u","r","e">>>>, location |-> <<"R","e","m","o","t","e">>] >>) }

SkillFilters == { <<>>, <<SKILLS[2]>> }     \* st.multiselect over SKILLS, main.py:411

TextAlphabet == {"s", "Q", "l", "R", "x"}
Texts == SeqsUpTo(TextAlphabet, MaxTextLen)

ResumeNames == { <<"P","y","t","h","o","n">>, <<"S","Q","L">> }
ResumeLists == SeqsUpTo(ResumeNames, MaxResumeLen)

TopNs == (0..MaxTopN) \cup {DefaultTopN}

----------------------------------------------------------------------------
(* Session state and the daily gate, main.py:148-157. *)

EmptyDict == [k \in {} |-> None]

\* dict.get(key, default)
Get(dict, key, default) == IF key \in DOMAIN dict THEN dict[key] ELSE default

\* dict[key] = value
Set(dict, key, value) ==
    [k \in DOMAIN dict \cup {key} |-> IF k = key THEN value ELSE dict[k]]

\* datetime.now().strftime("%Y-%m-%d")
IsoDate(day) == <<"date", day>>

\* get_usage_date() under @st.cache_data: the function takes no argument, so
\* the first value it returns is kept and returned from then on
get_usage_date ==
    IF usage_cache # <<>> THEN usage_cache[1]
    ELSE Get(session_state, "last_upload_date", None)

has_uploaded_today == get_usage_date = IsoDate(today)

\* mark_upload_today()
mark_upload_today == Set(session_state, "last_upload_date", IsoDate(today))

----------------------------------------------------------------------------
(* The application: one browser session of the Streamlit script.  Every    *)
(* interaction with a widget runs the script from the top, main.py:294-501.*)

NoCall == [fn |-> "none"]
Idle == [kind |-> "idle"]
Gated == [kind |-> "gated"]

Init ==
    /\ job_feed = SampleFeed
    /\ today = 1
    /\ session_state = EmptyDict
    /\ query_pro = FALSE
    /\ usage_cache = <<>>
    /\ run = Idle
    /\ call = NoCall
    /\ uploaded_file = NoFile
    /\ location_filter = AnyLocation
    /\ skill_filter = <<>>

\* One run of the script with the widgets holding file, location and skills;
\* upgrade tells whether the run was started by the upgrade button.
ScriptRun(file, location, skills, upgrade) ==
    /\ uploaded_file' = file
    /\ UNCHANGED <<job_feed, today, query_pro, call>>
    /\ IF file = NoFile
       THEN /\ run' = Idle
            /\ location_filter' = AnyLocation
            /\ skill_filter' = <<>>
            /\ UNCHANGED <<session_state, usage_cache>>
       ELSE /\ usage_cache' = <<get_usage_date>>
            /\ IF has_uploaded_today
               THEN \* main.py:306: the warning; no widget below it is drawn
                    /\ run' = Gated
                    /\ location_filter' = AnyLocation
                    /\ skill_filter' = <<>>
                    /\ UNCHANGED session_state
               ELSE /\ \E out \in ScriptBody(file, job_feed,
                                     Get(session_state, "pro_user", FALSE),
                                     location, skills, upgrade) :
                           run' = out
                    /\ session_state' = mark_upload_today
                    /\ location_filter' = location
                    /\ skill_filter' = skills

\* The browser opens the page (with or without ?pro=1): a new session, whose
\* state and widgets start empty.  The script reads no query parameter.
PageLoad ==
    \E q \in BOOLEAN :
        /\ query_pro' = q
        /\ session_state' = EmptyDict
        /\ uploaded_file' = NoFile
        /\ location_filter' = AnyLocation
        /\ skill_filter' = <<>>
        /\ run' = Idle
        /\ UNCHANGED <<job_feed, today, usage_cache, call>>

\* The user puts a file into the uploader.
ChooseFile ==
    \E file \in {f \in [name : FileNames, parts : SampleDocs] : Accepted(f)} :
        ScriptRun(file, location_filter, skill_filter, FALSE)

\* The user takes the file out of the uploader.
RemoveFile ==
    /\ uploaded_file # NoFile
    /\ ScriptRun(NoFile, location_filter, skill_filter, FALSE)

\* The user picks a location, main.py:410.
SetLocationFilter ==
    /\ run.kind = "scan"
    /\ \E location \in LocationOptions \ {location_filter} :
           ScriptRun(uploaded_file, location, skill_filter, FALSE)

\* The user picks the skills a job must include, main.py:411.
SetSkillFilter ==
    /\ run.kind = "scan"
    /\ \E skills \in SkillFilters \ {skill_filter} :
           ScriptRun(uploaded_file, location_filter, skills, FALSE)

\* The user presses the upgrade button, main.py:479.
ClickUpgrade ==
    /\ run.kind = "scan"
    /\ ~run.pro
    /\ ScriptRun(uploaded_file, location_filter, skill_filter, TRUE)

\* Midnight passes.
NextDay ==
    /\ today < MaxDay
    /\ today' = today + 1
    /\ UNCHANGED <<job_feed, session_state, query_pro, usage_cache, run, call,
                   uploaded_file, location_filter, skill_filter>>

\* "Clear cache" of the Streamlit menu empties every st.cache_data cache.
ClearCache ==
    /\ usage_cache # <<>>
    /\ usage_cache' = <<>>
    /\ UNCHANGED <<job_feed, today, session_state, query_pro, run, call,
                   uploaded_file, location_filter, skill_filter>>

Next ==
    \/ PageLoad
    \/ ChooseFile
    \/ RemoveFile
    \/ SetLocationFilter
    \/ SetSkillFilter
    \/ ClickUpgrade
    \/ NextDay
    \/ ClearCache

Spec == Init /\ [][Next]_vars

----------------------------------------------------------------------------
(* The functions on their own: one call on drawn arguments. *)

AppIdle ==
    UNCHANGED <<job_feed, today, session_state, query_pro, usage_cache, run,
                uploaded_file, location_filter, skill_filter>>

CallExtractSkills ==
    /\ call = NoCall
    /\ \E text \in Texts :
           call' = [fn |-> "extract_skills", text |-> text,
                    result |-> extract_skills(text)]
    /\ AppIdle

CallGetTopMatches ==
    /\ call = NoCall
    /\ \E resume_skills \in ResumeLists, feed \in Catalogs,
          pro_user \in BOOLEAN, top_n \in TopNs :
           \E result \in
                 get_top_matches_with_feedback(resume_skills, feed, pro_user, top_n) :
               call' = [fn |-> "get_top_matches_with_feedback",
                        resume_skills |-> resume_skills, job_feed |-> feed,
                        pro_user |-> pro_user, top_n |-> top_n,
                        result |-> result]
    /\ AppIdle

CallStrengthScore ==
    /\ call = NoCall
    /\ \E skill_score \in 0..MaxCount, n_feedback \in 0..MaxCount :
           call' = [fn |-> "strength_score", skill_score |-> skill_score,
                    n_feedback |-> n_feedback,
                    result |-> StrengthScore(skill_score, n_feedback)]
    /\ AppIdle

CallScriptBody ==
    /\ call = NoCall
    /\ \E file \in Files, feed \in SampleFeeds, pro \in BOOLEAN,
          location \in LocationOptions, skills \in SkillFilters :
           \E out \in ScriptBody(file, feed, pro, location, skills, FALSE) :
               call' = [fn |-> "script_body", job_feed |-> feed, result |-> out]
    /\ AppIdle

NextFn ==
    \/ CallExtractSkills
    \/ CallGetTopMatches
    \/ CallStrengthScore
    \/ CallScriptBody

SpecFn == Init /\ [][NextFn]_vars

----------------------------------------------------------------------------
(* Properties of get_top_matches_with_feedback, checked under SpecFn.      *)

IsMatchCall == call.fn = "get_top_matches_with_feedback"

\* the required skills of a result entry, lower-cased, as a set
RequiredLower(e) == {Lower(e.skills[j]) : j \in 1..Len(e.skills)}

\* C1: in every entry of the result, on lower-cased names, matched_skills and
\* missing_skills together are exactly the job's required skills, they share
\* no name, and match_score is the number of matched skills; a job requiring
\* python and sql against the resume skill Python has matched = {python},
\* missing = {sql}, score 1.
C1_MatchPartition ==
    IsMatchCall =>
        \A i \in 1..Len(call.result) :
            LET e == call.result[i]
                matched == Range(e.matched_skills)
                missing == Range(e.missing_skills)
            IN  /\ matched \cup missing = RequiredLower(e)
                /\ matched \cap missing = {}
                /\ e.match_score = Cardinality(matched)
                /\ e.match_score = Len(e.matched_skills)
                /\ (call.resume_skills = <<<<"P","y","t","h","o","n">>>> /\ e.skills = <<<<"p","y","t","h","o","n">>, <<"s","q","l">>>>)
                       => /\ e.matched_skills = <<<<"p","y","t","h","o","n">>>>
                          /\ e.missing_skills = <<<<"s","q","l">>>>
                          /\ e.match_score = 1

C1_Witness ==
    /\ IsMatchCall
    /\ call.resume_skills = <<<<"P","y","t","h","o","n">>>>
    /\ \E i \in 1..Len(call.result) :
           /\ call.result[i].skills = <<<<"p","y","t","h","o","n">>, <<"s","q","l">>>>
           /\ call.result[i].match_score = 1
           /\ call.result[i].missing_skills # <<>>

\* C2: the result is in descending order of match_score, jobs of equal score
\* keep their catalog order, and with no resume skill every score is 0 and
\* the result is the first top_n catalog entries in catalog order.
C2_StableRanking ==
    IsMatchCall =>
        /\ \A i, j \in 1..Len(call.result) :
               i < j =>
                   \/ call.result[i].match_score > call.result[j].match_score
                   \/ /\ call.result[i].match_score = call.result[j].match_score
                      /\ call.result[i].title < call.result[j].title
        /\ call.resume_skills = <<>> =>
               /\ Len(call.result) = Min(call.top_n, Len(call.job_feed))
               /\ \A i \in 1..Len(call.result) :
                      /\ call.result[i].match_score = 0
                      /\ call.result[i].title = call.job_feed[i].title

C2_Witness ==
    /\ IsMatchCall
    /\ Len(call.result) = 2
    /\ call.result[1].match_score = call.result[2].match_score
    /\ call.result[1].match_score > 0
    /\ call.result[1].title = 1
    /\ call.result[2].title = 2

\* C6: in every entry of the result the suggestions are, in the order of
\* missing_skills, one suggestion for each missing skill: all of them when
\* pro_user is true, the first min(2, |missing_skills|) when it is false.
C6_SuggestionsPerMissing ==
    IsMatchCall =>
        \A i \in 1..Len(call.result) :
            LET e == call.result[i]
                n == Len(e.missing_skills)
                shown == IF call.pro_user THEN n ELSE IF n < 2 THEN n ELSE 2
            IN  /\ Len(e.suggestions) = shown
                /\ \A k \in 1..shown :
                       e.suggestions[k] = SuggestionFor(e.missing_skills[k])

C6_Witness ==
    /\ IsMatchCall
    /\ ~call.pro_user
    /\ \E i \in 1..Len(call.result) :
           /\ Len(call.result[i].missing_skills) = 3
           /\ Len(call.result[i].suggestions) = 2

\* C8: for every catalog and every top_n >= 0 the result has exactly
\* min(top_n, |catalog|) entries, so never more than top_n, and none for the
\* empty catalog.
C8_Truncation ==
    IsMatchCall =>
        /\ Len(call.result) <= call.top_n
        /\ Len(call.result) =
               (IF call.top_n < Len(call.job_feed) THEN call.top_n ELSE Len(call.job_feed))
        /\ call.job_feed = <<>> => call.result = <<>>

C8_Witness ==
    /\ IsMatchCall
    /\ call.top_n = 1
    /\ Len(call.job_feed) = 2
    /\ Len(call.result) = 1

----------------------------------------------------------------------------
(* Properties of extract_skills and of the strength score, under SpecFn.   *)

\* the place of a vocabulary entry in SKILLS
SkillIndex(s) == CHOOSE i \in 1..Len(SKILLS) : SKILLS[i] = s

\* C5: extract_skills(T) holds a vocabulary entry exactly when its lower-case
\* form is a substring of lower-case T; it holds entries of SKILLS only, each
\* once, in the order of SKILLS, and nothing for the empty text.
C5_ExtractSkills ==
    call.fn = "extract_skills" =>
        LET T == Lower(call.text)
            found == {i \in 1..Len(SKILLS) :
                        \E k \in 0..(Len(T) - Len(SKILLS[i])) :
                            \A c \in 1..Len(SKILLS[i]) :
                                T[k + c] = LowerChar(SKILLS[i][c])}
        IN  /\ Range(call.result) = {SKILLS[i] : i \in found}
            /\ Len(call.result) = Cardinality(found)
            /\ \A a, b \in 1..Len(call.result) :
                   a < b => SkillIndex(call.result[a]) < SkillIndex(call.result[b])
            /\ call.text = <<>> => call.result = <<>>

C5_Witness ==
    /\ call.fn = "extract_skills"
    /\ call.text = <<"R", "s", "Q", "l">>
    /\ call.result = <<<<"S","Q","L">>, <<"R">>>>

\* the score the formula of the claim gives
ClaimedScore(skill_count, flagged) ==
    LET feedback_score == IF flagged >= 15 THEN 0 ELSE 15 - flagged
        raw == 3 * skill_count + 5 * feedback_score
    IN  IF raw > 100 THEN 100 ELSE raw

\* C7: for non-negative counts the resume strength score is
\* min(100, skill_count*3 + max(0, 15 - flagged_bullet_count)*5), which lies
\* in 0..100; 5 skills and 2 flagged bullets give 80.  The score of a run of
\* the script is the formula on its numbers of skills and feedback entries.
C7_StrengthScore ==
    /\ call.fn = "strength_score" =>
           /\ call.result = ClaimedScore(call.skill_score, call.n_feedback)
           /\ call.result \in 0..100
           /\ (call.skill_score = 5 /\ call.n_feedback = 2) => call.result = 80
    /\ call.fn = "script_body" =>
           /\ call.result.total_score =
                  ClaimedScore(Len(call.result.resume_skills), Len(call.result.feedback))
           /\ call.result.total_score \in 0..100

C7_Witness ==
    /\ call.fn = "strength_score"
    /\ call.skill_score = 5
    /\ call.n_feedback = 2
    /\ call.result = 80

----------------------------------------------------------------------------
(* Properties of the application, checked under Spec.                      *)

\* C3: once the session's last upload date is today, a later run of the
\* script for an uploaded file on the same day is gated: it shows the warning
\* and scans nothing.
C3_OneScanPerDay ==
    [][ ( /\ Get(session_state, "last_upload_date", None) = IsoDate(today)
          /\ today' = today
          /\ run' # run
          /\ run'.kind # "idle" )
        => run'.kind = "gated" ]_vars

\* C4: after a page load that carries the payment-success flag ?pro=1 the
\* session's pro_user flag is true.
C4_ProAfterPayment ==
    query_pro => Get(session_state, "pro_user", FALSE) = TRUE

\* the file name of the latest scan ends in neither .pdf nor .docx
ScannedUnsupported ==
    /\ run.kind = "scan"
    /\ ~EndsWith(run.file, ExtPdf)
    /\ ~EndsWith(run.file, ExtDocx)

\* what C9 says of every stage but the strength score
EmptyStages ==
    /\ run.text = <<>>
    /\ run.resume_skills = <<>>
    /\ run.bullets = <<>>
    /\ run.feedback = <<>>
    /\ \A i \in 1..Len(run.top) : run.top[i].match_score = 0
    /\ \A i \in 1..Len(run.matches) : run.matches[i].match_score = 0

\* C9 as stated: a file that is neither .pdf nor .docx gives the empty text
\* and every later stage an empty or zero result, the strength score included.
C9_UnsupportedAllZero ==
    ScannedUnsupported => (EmptyStages /\ run.total_score = 0)

\* C9, amended: a file that is neither .pdf nor .docx gives the empty text,
\* no skills, no bullets, no bullet feedback and match_score 0 for every job,
\* and a resume strength score of 75 (no skill, no flagged bullet).
C9_UnsupportedEmpty ==
    ScannedUnsupported => (EmptyStages /\ run.total_score = 75)

C9_Witness ==
    /\ ScannedUnsupported
    /\ uploaded_file.parts # <<>>
    /\ run.top # <<>>
    /\ run.total_score = 75

----------------------------------------------------------------------------
(* The exported report, checked under SpecFn on runs of the script body.   *)

IsBodyCall == call.fn = "script_body"

\* the suggestions of the listed matches as the report prints them
PrintedSuggestions(matches) ==
    LET all == AllSuggestions(matches)
    IN  [i \in 1..Len(all) |-> Remove(all[i], <<"BULB", " ">>)]

\* C10 as stated: the report holds every suggestion of every listed match
\* when the session is entitled, and the first 2 otherwise (read of the
\* reports that are exported).
C10_ReportSuggestions ==
    IsBodyCall =>
        LET printed == PrintedSuggestions(call.result.matches)
        IN  IF call.result.pro
            THEN /\ call.result.report # <<>>
                 /\ Range(printed) \subseteq Range(call.result.report[1].suggestions)
            ELSE call.result.report # <<>> =>
                     call.result.report[1].suggestions = Take(printed, 2)

\* C10, amended: a report is exported only when the session is entitled; it
\* then lists the first 5 of the suggestions of the listed matches, taken in
\* ranking order from the full suggestion list of each match (all of them
\* when there are at most 5).
C10_ReportFirstFive ==
    IsBodyCall =>
        IF call.result.pro
        THEN /\ Len(call.result.report) = 1
             /\ \A i \in 1..Len(call.result.matches) :
                    Len(call.result.matches[i].suggestions) =
                        Len(call.result.matches[i].missing_skills)
             /\ LET printed == PrintedSuggestions(call.result.matches)
                    shown == call.result.report[1].suggestions
                IN  /\ Len(shown) = (IF Len(printed) < 5 THEN Len(printed) ELSE 5)
                    /\ \A i \in 1..Len(shown) : shown[i] = printed[i]
        ELSE call.result.report = <<>>

C10_Witness ==
    /\ IsBodyCall
    /\ call.result.pro
    /\ Len(call.result.matches) = 3
    /\ Len(AllSuggestions(call.result.matches)) = 6
    /\ Len(call.result.report[1].suggestions) = 5

----------------------------------------------------------------------------
(* Rewrites against feedback, checked under SpecFn on runs of the script   *)
(* body of an entitled session, where both lists are built from the same   *)
(* bullets (main.py:311 and main.py:342).                                  *)

\* the bullets a list of (bullet, text) pairs is about, in order
Originals(pairs) == [i \in 1..Len(pairs) |-> pairs[i][1]]

\* C11: the bullets generate_rewritten_bullets offers a rewrite for are
\* exactly the bullets analyze_bullets returns a feedback entry for, in the
\* same order, so "no rewrites" and "no feedback" coincide.
C11_RewritesMatchFeedback ==
    (IsBodyCall /\ call.result.pro) =>
        /\ Originals(call.result.rewrites) = Originals(call.result.feedback)
        /\ (call.result.rewrites = <<>>) <=> (call.result.feedback = <<>>)

====
